---- MODULE Spec2Model ----
(***************************************************************************)
(* protoc-gen-go-redact: the requirement propagation of the plugin's main  *)
(* function, the execution of redactTemplate.tpl over a messageDesc, and    *)
(* the behaviour of the generated redact()/Redact() methods.                *)
(***************************************************************************)
EXTENDS Integers, Sequences, FiniteSets, TLC

(***************************************************************************)
(* Bounds of the model.                                                     *)
(***************************************************************************)
NumMsgs == 3
MaxEdges == 2

(***************************************************************************)
(* Small helpers.                                                           *)
(***************************************************************************)
Range(s) == {s[i] : i \in DOMAIN s}

RECURSIVE SeqOfSet(_)
SeqOfSet(S) ==
    IF S = {} THEN <<>>
    ELSE LET x == CHOOSE y \in S : TRUE IN <<x>> \o SeqOfSet(S \ {x})

Reverse(s) == [i \in DOMAIN s |-> s[Len(s) + 1 - i]]

(***************************************************************************)
(* Schema model: the descriptors protogen hands to the plugin.  A file has  *)
(* a name, a Go package, the Generate flag and its messages; a message has  *)
(* its fields in declaration order.                                         *)
(***************************************************************************)
NoTarget == ""
NoOneof == ""
NoMask == [kind |-> "none"]
NoKey == ""

\* Kind and Target describe the element of a repeated field and the value of a
\* map field; KeyKind is the key type of a map field
Field(name, kind, card, target, oneof, red, mask) ==
    [JSONName |-> name, Kind |-> kind, Card |-> card, Target |-> target,
     Oneof |-> oneof, Redact |-> red, Mask |-> mask, KeyKind |-> NoKey]

MsgNames == <<"M1", "M2", "M3", "M4", "M5">>
Msgs == {MsgNames[i] : i \in 1..NumMsgs}
MsgIndex(m) == CHOOSE i \in 1..Len(MsgNames) : MsgNames[i] = m

AllPairs == Msgs \X Msgs
EdgeSets == {E \in SUBSET AllPairs : Cardinality(E) <= MaxEdges}

\* the shape of the message-valued field behind an edge: singular, repeated,
\* map value or oneof alternative
EdgeShapes == <<"singular", "repeated", "map", "oneof">>
EdgeShape(a, b) == EdgeShapes[((MsgIndex(a) + 2 * MsgIndex(b)) % 4) + 1]

EdgeField(a, b) ==
    LET sh == EdgeShape(a, b) IN
    Field("to" \o b, "message",
          IF sh = "oneof" THEN "singular" ELSE sh,
          b,
          IF sh = "oneof" THEN "choice" ELSE NoOneof,
          FALSE, NoMask)

\* the redact=true field a sensitive message owns
OwnShapes == {"scalar", "composite"}
OwnField(shape) ==
    IF shape = "scalar"
    THEN Field("secret", "string", "singular", NoTarget, NoOneof, TRUE, NoMask)
    ELSE Field("secrets", "string", "repeated", NoTarget, NoOneof, TRUE, NoMask)

PlainField == Field("id", "string", "singular", NoTarget, NoOneof, FALSE, NoMask)

SynthFields(m, E, own, shape) ==
    LET outs == SeqOfSet({b \in Msgs : <<m, b>> \in E}) IN
    (IF own[m] THEN <<OwnField(shape)>> ELSE <<>>)
    \o [i \in DOMAIN outs |-> EdgeField(m, outs[i])]

\* file layouts: everything in one file, or M1 in a.proto importing b.proto
\* that declares the other messages (imports are acyclic, so no message of
\* b.proto refers to M1)
Layouts == {"single", "split"}
Requests == {"all", "importer", "imported"}

LayoutOK(E, layout, req) ==
    IF layout = "single" THEN req = "all"
    ELSE /\ NumMsgs >= 2
         /\ \A e \in E : e[2] = "M1" => e[1] = "M1"

SynthFiles(layout, req) ==
    IF layout = "single"
    THEN << [Name |-> "a.proto", Pkg |-> "p1", Generate |-> TRUE,
             Messages |-> [i \in 1..NumMsgs |-> MsgNames[i]]] >>
    ELSE << [Name |-> "b.proto", Pkg |-> "p1", Generate |-> req # "importer",
             Messages |-> [i \in 1..(NumMsgs - 1) |-> MsgNames[i + 1]]],
            [Name |-> "a.proto", Pkg |-> "p1", Generate |-> req # "imported",
             Messages |-> <<"M1">>] >>

SynthUnit(E, own, shape, layout, req) ==
    [Files |-> SynthFiles(layout, req),
     Fields |-> [m \in Msgs |-> SynthFields(m, E, own, shape)]]

\* units in which one message has a field of a message type that no file of
\* the unit declares
DanglingField == Field("toGone", "message", "singular", "Gone", NoOneof, FALSE, NoMask)

WithDangling(u, m) == [u EXCEPT !.Fields[m] = @ \o <<DanglingField>>]

DanglingUnits ==
    {WithDangling(SynthUnit({}, own, shape, layout, rq), m) :
        own \in [Msgs -> BOOLEAN], shape \in OwnShapes, m \in Msgs,
        <<layout, rq>> \in {lr \in Layouts \X Requests : LayoutOK({}, lr[1], lr[2])}}

UnitMsgs(u) == DOMAIN u.Fields

\* variant: a reference to an unknown type is passed over
Resolved_skipUnknown(u) == TRUE

\* every message-valued field refers to a message of the unit
Resolved(u) ==
    \A m \in UnitMsgs(u) : \A i \in DOMAIN u.Fields[m] :
        u.Fields[m][i].Kind = "message" => u.Fields[m][i].Target \in UnitMsgs(u)
FileOf(u, m) == CHOOSE i \in DOMAIN u.Files : m \in Range(u.Files[i].Messages)
MessagesOf(files) == UNION {Range(files[i].Messages) : i \in DOMAIN files}


(***************************************************************************)
(* Requirement Propagator (CollectGlobalRedactRequirements).  Seed with the *)
(* messages owning a redact=true field, then scan the message-valued fields *)
(* of every message, marking a message whose field targets a marked one,    *)
(* until a full pass adds no mark.  The marks are a Go map: a message that  *)
(* is not a key reads as false.                                             *)
(***************************************************************************)
OwnsRedact(u, m) == \E i \in DOMAIN u.Fields[m] : u.Fields[m][i].Redact

IsMessageEdge(f) == f.Kind = "message" /\ f.Target # NoTarget

Marked(marks, m) == m \in DOMAIN marks /\ marks[m]

FileMessages(files) ==
    LET RECURSIVE Cat(_)
        Cat(i) == IF i > Len(files) THEN <<>> ELSE files[i].Messages \o Cat(i + 1)
    IN Cat(1)

SeedMarks(u, files) == [m \in MessagesOf(files) |-> OwnsRedact(u, m)]

\* variant: a depth-first walk in declaration order that never follows an edge
\* back to a message declared earlier
ScanMessage_forwardOnly(u, marks, m) ==
    IF \E i \in DOMAIN u.Fields[m] :
          /\ IsMessageEdge(u.Fields[m][i])
          /\ MsgIndex(u.Fields[m][i].Target) >= MsgIndex(m)
          /\ Marked(marks, u.Fields[m][i].Target)
    THEN [marks EXCEPT ![m] = TRUE]
    ELSE marks

\* variant: a message is marked as soon as it has any message-valued field
ScanMessage_anyEdge(u, marks, m) ==
    IF \E i \in DOMAIN u.Fields[m] : IsMessageEdge(u.Fields[m][i])
    THEN [marks EXCEPT ![m] = TRUE]
    ELSE marks

ScanMessage(u, marks, m) ==
    IF \E i \in DOMAIN u.Fields[m] :
          IsMessageEdge(u.Fields[m][i]) /\ Marked(marks, u.Fields[m][i].Target)
    THEN [marks EXCEPT ![m] = TRUE]
    ELSE marks

RECURSIVE PassFrom(_, _, _, _)
PassFrom(u, marks, order, i) ==
    IF i > Len(order) THEN marks
    ELSE PassFrom(u, ScanMessage(u, marks, order[i]), order, i + 1)

PropagateOnce(u, marks, order) == PassFrom(u, marks, order, 1)

\* variant: a single sweep over the messages, without repetition
PropagateAll_oneSweep(u, marks, order) == PropagateOnce(u, marks, order)

RECURSIVE PropagateAll(_, _, _)
PropagateAll(u, marks, order) ==
    LET next == PropagateOnce(u, marks, order) IN
    IF next = marks THEN marks ELSE PropagateAll(u, next, order)

ScanOrders == {"forward", "backward"}
ScanSeq(files, dir) ==
    IF dir = "forward" THEN FileMessages(files) ELSE Reverse(FileMessages(files))

CollectGlobalRedactRequirements(u, files, dir) ==
    PropagateAll(u, SeedMarks(u, files), ScanSeq(files, dir))

(***************************************************************************)
(* Field Classifier: the fieldDesc the template is executed over.           *)
(***************************************************************************)
integerKinds == {"int32", "int64", "uint32", "uint64", "sint32", "sint64",
                 "fixed32", "fixed64", "sfixed32", "sfixed64"}
floatKinds == {"float", "double"}

defaultStringMask == "*"

newFieldDesc(f) ==
    [GoName |-> f.JSONName,
     JSONName |-> f.JSONName,
     Redact |-> f.Redact,
     IsMessage |-> f.Kind = "message" /\ f.Card # "map",
     IsRepeated |-> f.Card = "repeated",
     IsInteger |-> f.Kind \in integerKinds,
     IsFloat |-> f.Kind \in floatKinds,
     IsBool |-> f.Kind = "bool",
     IsBytes |-> f.Kind = "bytes",
     IsEnum |-> f.Kind = "enum",
     IsMap |-> f.Card = "map",
     IsOneof |-> f.Oneof # NoOneof,
     MapValueIsMessage |-> f.Card = "map" /\ f.Kind = "message",
     StringMask |-> IF f.Mask.kind = "string" THEN f.Mask.v ELSE defaultStringMask,
     IntMask |-> IF f.Mask.kind = "int" THEN f.Mask.v ELSE 0,
     DoubleMask |-> IF f.Mask.kind = "double" THEN f.Mask.v ELSE 0,
     BoolMask |-> IF f.Mask.kind = "bool" THEN f.Mask.v ELSE FALSE,
     BytesMask |-> IF f.Mask.kind = "bytes" THEN f.Mask.v ELSE "",
     EnumMask |-> IF f.Mask.kind = "enum" THEN f.Mask.v ELSE 0]

newMessageDesc(u, m) ==
    [Name |-> m,
     Fields |-> [i \in DOMAIN u.Fields[m] |-> newFieldDesc(u.Fields[m][i])]]

(***************************************************************************)
(* redactTemplate.tpl executed by text/template.  {{.X}} on a struct that   *)
(* has no field or method X is an execution error; the conditions of an     *)
(* if/else-if chain are evaluated in order, up to the first true one.       *)
(***************************************************************************)
ExecError == "exec-error"

Dot(fd, name) ==
    IF name \notin DOMAIN fd THEN "error"
    ELSE IF fd[name] THEN "true" ELSE "false"

\* {{if .Redact}} ... the chain of lines 10-28
RedactChain ==
    << <<"IsRepeated", "RedactRepeated">>,
       <<"IsMap", "RedactMap">>,
       <<"IsMessage", "RedactMessage">>,
       <<"IsNumeric", "RedactInteger">>,
       <<"IsFloat", "RedactFloat">>,
       <<"IsBool", "RedactBool">>,
       <<"IsBytes", "RedactBytes">>,
       <<"IsEnum", "RedactEnum">> >>

RECURSIVE FirstTrue(_, _, _, _)
FirstTrue(fd, chain, i, otherwise) ==
    IF i > Len(chain) THEN otherwise
    ELSE LET c == Dot(fd, chain[i][1]) IN
         IF c = "error" THEN ExecError
         ELSE IF c = "true" THEN chain[i][2]
         ELSE FirstTrue(fd, chain, i + 1, otherwise)

\* variant: a declared string or integer override wins over the composite
\* branches
fieldBranch_maskFirst(fd) ==
    IF fd.Redact /\ fd.StringMask # defaultStringMask THEN "RedactString"
    ELSE IF fd.Redact /\ fd.IntMask # 0 THEN "RedactInteger"
    ELSE IF fd.Redact THEN FirstTrue(fd, RedactChain, 1, "RedactString")
    ELSE IF fd.IsMap
         THEN (IF fd.MapValueIsMessage THEN "MapMessage" ELSE "MapScalar")
    ELSE IF fd.IsMessage /\ fd.IsRepeated THEN "RepeatedMessage"
    ELSE IF fd.IsRepeated THEN "RepeatedScalar"
    ELSE IF fd.IsMessage
         THEN (IF fd.IsOneof THEN "OneofMessage" ELSE "SingularMessage")
    ELSE IF fd.IsOneof THEN "OneofScalar"
    ELSE "Scalar"

\* the branch of the template one field takes (lines 9-88)
fieldBranch(fd) ==
    IF fd.Redact THEN FirstTrue(fd, RedactChain, 1, "RedactString")
    ELSE IF fd.IsMap
         THEN (IF fd.MapValueIsMessage THEN "MapMessage" ELSE "MapScalar")
    ELSE IF fd.IsMessage /\ fd.IsRepeated THEN "RepeatedMessage"
    ELSE IF fd.IsRepeated THEN "RepeatedScalar"
    ELSE IF fd.IsMessage
         THEN (IF fd.IsOneof THEN "OneofMessage" ELSE "SingularMessage")
    ELSE IF fd.IsOneof THEN "OneofScalar"
    ELSE "Scalar"

\* the mask literal a redact branch writes into the generated statement
branchMask(fd, br) ==
    CASE br = "RedactInteger" -> fd.IntMask
      [] br = "RedactFloat" -> fd.DoubleMask
      [] br = "RedactBool" -> fd.BoolMask
      [] br = "RedactBytes" -> fd.BytesMask
      [] br = "RedactEnum" -> fd.EnumMask
      [] br = "RedactString" -> fd.StringMask
      [] OTHER -> "composite"

fieldStmt(fd) ==
    LET br == fieldBranch(fd) IN
    [Branch |-> br, Key |-> fd.JSONName, Field |-> fd.GoName,
     Mask |-> IF br = ExecError THEN "none" ELSE branchMask(fd, br)]

\* messageDesc.execute: the statements of the generated redact() in the order
\* of .Fields, or a panic when the template fails
execute(md) ==
    LET stmts == [i \in DOMAIN md.Fields |-> fieldStmt(md.Fields[i])] IN
    [Panic |-> \E i \in DOMAIN stmts : stmts[i].Branch = ExecError,
     Name |-> md.Name,
     Body |-> stmts]


(***************************************************************************)
(* Concrete compilation units whose generated code is run.                  *)
(***************************************************************************)
StrField(name, red, mask) == Field(name, "string", "singular", NoTarget, NoOneof, red, mask)
IntField(name, kind, red, mask) == Field(name, kind, "singular", NoTarget, NoOneof, red, mask)
MsgField(name, target, red) == Field(name, "message", "singular", target, NoOneof, red, NoMask)
RepMsgField(name, target, red) == Field(name, "message", "repeated", target, NoOneof, red, NoMask)
RepStrField(name, red) == Field(name, "string", "repeated", NoTarget, NoOneof, red, NoMask)
MapField(name, keyKind, kind, target, red) ==
    [Field(name, kind, "map", target, NoOneof, red, NoMask) EXCEPT !.KeyKind = keyKind]

\* README "Usage": User and Account
ReadmeUnit ==
    [Files |-> << [Name |-> "example.proto", Pkg |-> "p1", Generate |-> TRUE,
                   Messages |-> <<"User", "Account">>] >>,
     Fields |->
        [User |-> << StrField("name", FALSE, NoMask),
                     StrField("email", TRUE, [kind |-> "string", v |-> "*"]),
                     StrField("password", TRUE, [kind |-> "string", v |-> "[HIDDEN]"]),
                     IntField("age", "int64", FALSE, NoMask) >>,
         Account |-> << StrField("id", FALSE, NoMask),
                        StrField("secretKey", TRUE, NoMask),
                        MsgField("user", "User", FALSE) >>]]

\* messages whose redact=true fields are all composite, in two Go packages,
\* and the imported options file, which is not requested for output
VaultUnit ==
    [Files |-> << [Name |-> "redact.proto", Pkg |-> "p0", Generate |-> FALSE,
                   Messages |-> <<"Options">>],
                  [Name |-> "ext.proto", Pkg |-> "p2", Generate |-> TRUE,
                   Messages |-> <<"Ext">>],
                  [Name |-> "vault.proto", Pkg |-> "p1", Generate |-> TRUE,
                   Messages |-> <<"Vault", "Plain", "Box", "Shelf", "Choice",
                                  "Outer", "Crate", "Masked", "Ledger">>] >>,
     Fields |->
        [Options |-> << StrField("text", FALSE, NoMask) >>,
         Ext |-> << StrField("key", FALSE, NoMask), RepStrField("codes", TRUE) >>,
         Vault |-> << StrField("id", FALSE, NoMask), RepStrField("tokens", TRUE) >>,
         Plain |-> << StrField("text", FALSE, NoMask) >>,
         Box |-> << StrField("label", FALSE, NoMask),
                    MsgField("vault", "Vault", FALSE),
                    MsgField("sealed", "Vault", TRUE),
                    MsgField("plain", "Plain", FALSE) >>,
         Shelf |-> << RepMsgField("vaults", "Vault", FALSE),
                      RepStrField("labels", FALSE) >>,
         Choice |-> << StrField("id", FALSE, NoMask),
                       Field("note", "string", "singular", NoTarget, "pick", FALSE, NoMask),
                       Field("vault", "message", "singular", "Vault", "pick", FALSE, NoMask),
                       Field("sealed", "message", "singular", "Vault", "pick", TRUE, NoMask) >>,
         Outer |-> << StrField("name", FALSE, NoMask), MsgField("box", "Box", FALSE) >>,
         Crate |-> << StrField("id", FALSE, NoMask), MsgField("ext", "Ext", FALSE) >>,
         Masked |-> << StrField("id", FALSE, NoMask),
                       [RepStrField("tokens", TRUE) EXCEPT !.Mask = [kind |-> "string", v |-> "#"]],
                       [MsgField("sealed", "Vault", TRUE) EXCEPT !.Mask = [kind |-> "int", v |-> 7]],
                       [MapField("hidden", "string", "string", NoTarget, TRUE)
                            EXCEPT !.Mask = [kind |-> "string", v |-> "#"]] >>,
         Ledger |-> << MapField("byName", "string", "message", "Vault", FALSE),
                       MapField("labels", "int32", "string", NoTarget, FALSE),
                       MapField("hidden", "string", "string", NoTarget, TRUE) >>]]

\* TestAllScalarTypes and TestCustomMaskTypes: redact=true fields of the scalar
\* kinds, without and with an override
ScalarsUnit ==
    [Files |-> << [Name |-> "scalars.proto", Pkg |-> "p1", Generate |-> TRUE,
                   Messages |-> <<"Scalars", "Custom">>] >>,
     Fields |->
        [Scalars |-> << IntField("int32Val", "int32", FALSE, NoMask),
                        IntField("redactInt32", "int32", TRUE, NoMask),
                        IntField("redactDouble", "double", TRUE, NoMask),
                        IntField("redactBool", "bool", TRUE, NoMask),
                        IntField("redactEnum", "enum", TRUE, NoMask),
                        StrField("redactString", TRUE, NoMask),
                        IntField("redactBytes", "bytes", TRUE, NoMask) >>,
         Custom |-> << IntField("int32Val", "int32", FALSE, NoMask),
                       IntField("redactInt32", "int32", TRUE, [kind |-> "int", v |-> -1]),
                       IntField("redactUint32", "uint32", TRUE, [kind |-> "int", v |-> -1]),
                       IntField("redactInt64", "int64", TRUE, [kind |-> "int", v |-> -999]),
                       IntField("redactUint64", "uint64", TRUE, [kind |-> "int", v |-> -1]) >>]]

RuntimeUnits == {ReadmeUnit, VaultUnit, ScalarsUnit}

PkgOf(u, m) == u.Files[FileOf(u, m)].Pkg

(***************************************************************************)
(* Message instances (the Go structs protoc-gen-go generates).              *)
(***************************************************************************)
MaxList == 2

Nil == [k |-> "nil"]
Str(v) == [k |-> "str", v |-> v]
Num(v) == [k |-> "int", v |-> v]
Flag(v) == [k |-> "bool", v |-> v]
List(s) == [k |-> "list", v |-> s]
Map(es) == [k |-> "map", v |-> es]
Entry(key, val) == [key |-> key, val |-> val]
Msg(t, f) == [k |-> "msg", t |-> t, f |-> f]
Unset == [k |-> "unset"]
Alt(name, v) == [k |-> "alt", alt |-> name, v |-> v]

StrVals == {"", "x"}
IntVals == {0, 30}
ElemVals == {"t"}
StrKeys == {"k1", "k2"}
IntKeys == {1, 2}

ListsOver(S) == UNION {[1..n -> S] : n \in 0..MaxList}

Extend(S, key, V) ==
    {[x \in DOMAIN f \cup {key} |-> IF x = key THEN v ELSE f[x]] : f \in S, v \in V}

OneofGroups(u, t) == {u.Fields[t][i].Oneof : i \in DOMAIN u.Fields[t]} \ {NoOneof}
GroupAlts(u, t, g) == {i \in DOMAIN u.Fields[t] : u.Fields[t][i].Oneof = g}

ScalarVals(kind) ==
    IF kind \in {"string", "bytes"} THEN {Str(v) : v \in StrVals}
    ELSE IF kind = "bool" THEN {Flag(v) : v \in BOOLEAN}
    ELSE {Num(v) : v \in IntVals}

Zero(f) ==
    IF f.Card = "map" THEN Map({})
    ELSE IF f.Kind = "message" THEN Nil
    ELSE IF f.Kind \in {"string", "bytes"} THEN Str("")
    ELSE IF f.Kind = "bool" THEN Flag(FALSE) ELSE Num(0)

RECURSIVE Instances(_, _)
FieldVals(u, f) ==
    IF f.Card = "map"
    THEN LET keys == IF f.KeyKind = "string" THEN {Str(k) : k \in StrKeys}
                     ELSE {Num(k) : k \in IntKeys}
             vals == IF f.Kind = "message" THEN {Nil} \cup Instances(u, f.Target)
                     ELSE {Str(v) : v \in ElemVals} IN
         \* a Go map: at most one entry per key
         {Map({Entry(k, g[k]) : k \in DOMAIN g}) :
             g \in UNION {[K -> vals] : K \in SUBSET keys}}
    ELSE IF f.Card = "repeated"
    THEN IF f.Kind = "message"
         THEN {List(l) : l \in ListsOver({Nil} \cup Instances(u, f.Target))}
         ELSE {List(l) : l \in ListsOver({Str(v) : v \in ElemVals})}
    ELSE IF f.Kind = "message" THEN {Nil} \cup Instances(u, f.Target)
    ELSE ScalarVals(f.Kind)

GroupVals(u, t, g) ==
    {Unset} \cup UNION {{Alt(u.Fields[t][i].JSONName, v) : v \in FieldVals(u, u.Fields[t][i])} :
                           i \in GroupAlts(u, t, g)}

RECURSIVE FieldMaps(_, _, _)
FieldMaps(u, t, i) ==
    IF i = 0 THEN {<< >>}
    ELSE LET f == u.Fields[t][i]
             rest == FieldMaps(u, t, i - 1) IN
         IF f.Oneof = NoOneof THEN Extend(rest, f.JSONName, FieldVals(u, f))
         ELSE IF \E j \in 1..(i - 1) : u.Fields[t][j].Oneof = f.Oneof THEN rest
         ELSE Extend(rest, f.Oneof, GroupVals(u, t, f.Oneof))

Instances(u, t) == {Msg(t, fm) : fm \in FieldMaps(u, t, Len(u.Fields[t]))}

\* x.Field, or x.GetField() for an alternative of a oneof
Get(x, f) ==
    IF f.Oneof = NoOneof THEN x.f[f.JSONName]
    ELSE LET g == x.f[f.Oneof] IN
         IF g.k = "alt" /\ g.alt = f.JSONName THEN g.v ELSE Zero(f)

(***************************************************************************)
(* JSON documents: the value tree and encoding/json's rendering of it.      *)
(***************************************************************************)
JNull == [j |-> "null"]
JStr(v) == [j |-> "str", v |-> v]
JNum(v) == [j |-> "num", v |-> v]
JBool(v) == [j |-> "bool", v |-> v]
JArr(s) == [j |-> "arr", v |-> s]
JObj(m) == [j |-> "obj", m |-> m]
JRaw(s) == [j |-> "raw", v |-> s]

KeyBytes(k) ==
    CASE
         k = "id" -> <<105, 100>>
      [] k = "tokens" -> <<116, 111, 107, 101, 110, 115>>
      [] k = "label" -> <<108, 97, 98, 101, 108>>
      [] k = "vault" -> <<118, 97, 117, 108, 116>>
      [] k = "sealed" -> <<115, 101, 97, 108, 101, 100>>
      [] k = "plain" -> <<112, 108, 97, 105, 110>>
      [] k = "ext" -> <<101, 120, 116>>
      [] k = "vaults" -> <<118, 97, 117, 108, 116, 115>>
      [] k = "note" -> <<110, 111, 116, 101>>
      [] k = "name" -> <<110, 97, 109, 101>>
      [] k = "box" -> <<98, 111, 120>>
      [] k = "text" -> <<116, 101, 120, 116>>
      [] k = "key" -> <<107, 101, 121>>
      [] k = "codes" -> <<99, 111, 100, 101, 115>>
      [] k = "email" -> <<101, 109, 97, 105, 108>>
      [] k = "password" -> <<112, 97, 115, 115, 119, 111, 114, 100>>
      [] k = "age" -> <<97, 103, 101>>
      [] k = "secretKey" -> <<115, 101, 99, 114, 101, 116, 75, 101, 121>>
      [] k = "user" -> <<117, 115, 101, 114>>
      [] k = "pick" -> <<112, 105, 99, 107>>
      [] k = "secret" -> <<115, 101, 99, 114, 101, 116>>
      [] k = "secrets" -> <<115, 101, 99, 114, 101, 116, 115>>
      [] k = "toM1" -> <<116, 111, 77, 49>>
      [] k = "toM2" -> <<116, 111, 77, 50>>
      [] k = "toM3" -> <<116, 111, 77, 51>>
      [] k = "toM4" -> <<116, 111, 77, 52>>
      [] k = "toM5" -> <<116, 111, 77, 53>>
      [] k = "byName" -> <<98, 121, 78, 97, 109, 101>>
      [] k = "labels" -> <<108, 97, 98, 101, 108, 115>>
      [] k = "hidden" -> <<104, 105, 100, 100, 101, 110>>
      [] k = "k1" -> <<107, 49>>
      [] k = "k2" -> <<107, 50>>
      [] k = "1" -> <<49>>
      [] k = "2" -> <<50>>

RECURSIVE BytesLess(_, _, _)
BytesLess(a, b, i) ==
    IF i > Len(a) THEN i <= Len(b)
    ELSE IF i > Len(b) THEN FALSE
    ELSE IF a[i] # b[i] THEN a[i] < b[i]
    ELSE BytesLess(a, b, i + 1)

KeyLess(a, b) == BytesLess(KeyBytes(a), KeyBytes(b), 1)

\* encoding/json writes the keys of a Go map in sorted order
RECURSIVE SortedKeys(_)
SortedKeys(S) ==
    IF S = {} THEN << >>
    ELSE LET least == CHOOSE a \in S : \A b \in S \ {a} : KeyLess(a, b) IN
         <<least>> \o SortedKeys(S \ {least})

Quote(s) == "\"" \o s \o "\""

RECURSIVE Join(_, _)
Join(parts, i) ==
    IF i > Len(parts) THEN ""
    ELSE (IF i > 1 THEN "," ELSE "") \o parts[i] \o Join(parts, i + 1)

RECURSIVE Marshal(_)
Marshal(d) ==
    CASE d.j = "null" -> "null"
      [] d.j = "str" -> Quote(d.v)
      [] d.j = "num" -> ToString(d.v)
      [] d.j = "bool" -> IF d.v THEN "true" ELSE "false"
      [] d.j = "arr" -> "[" \o Join([i \in DOMAIN d.v |-> Marshal(d.v[i])], 1) \o "]"
      [] d.j = "obj" ->
            LET ks == SortedKeys(DOMAIN d.m) IN
            "{" \o Join([i \in DOMAIN ks |-> Quote(ks[i]) \o ":" \o Marshal(d.m[ks[i]])], 1) \o "}"
      [] d.j = "raw" ->
            "{" \o Join([i \in DOMAIN d.v |-> Quote(d.v[i][1]) \o ":" \o Marshal(d.v[i][2])], 1) \o "}"

(***************************************************************************)
(* The generated code: redact() interprets the statements the template      *)
(* emitted for the message, Redact() marshals the result.                   *)
(***************************************************************************)
FieldNamed(u, t, name) ==
    u.Fields[t][CHOOSE i \in DOMAIN u.Fields[t] : u.Fields[t][i].JSONName = name]

int64Kinds == {"int64", "uint64", "sint64", "fixed64", "sfixed64"}

\* protojson.Format of a message without redaction: the populated fields in
\* declaration order, 64-bit integers as strings
Populated(x, f) ==
    IF f.Oneof # NoOneof THEN x.f[f.Oneof].k = "alt" /\ x.f[f.Oneof].alt = f.JSONName
    ELSE LET v == x.f[f.JSONName] IN
         \/ v.k = "msg"
         \/ (v.k = "str" /\ v.v # "")
         \/ (v.k = "int" /\ v.v # 0)
         \/ (v.k = "bool" /\ v.v)
         \/ (v.k = "list" /\ Len(v.v) > 0)
         \/ (v.k = "map" /\ v.v # {})

RECURSIVE PlainForm(_, _)
PlainValue(u, f, v) ==
    CASE v.k = "nil" -> JNull
      [] v.k = "str" -> JStr(v.v)
      [] v.k = "int" -> IF f.Kind \in int64Kinds THEN JStr(ToString(v.v)) ELSE JNum(v.v)
      [] v.k = "bool" -> JBool(v.v)
      [] v.k = "msg" -> PlainForm(u, v)
      [] v.k = "list" ->
            JArr([i \in DOMAIN v.v |->
                    IF v.v[i].k = "msg" THEN PlainForm(u, v.v[i])
                    ELSE IF v.v[i].k = "str" THEN JStr(v.v[i].v)
                    ELSE IF v.v[i].k = "int" THEN JNum(v.v[i].v)
                    ELSE JNull])
      [] v.k = "map" ->
            JObj([ko \in {(IF e.key.k = "str" THEN e.key.v ELSE ToString(e.key.v)) : e \in v.v} |->
                    LET e == CHOOSE e \in v.v :
                                 (IF e.key.k = "str" THEN e.key.v ELSE ToString(e.key.v)) = ko IN
                    IF e.val.k = "msg" THEN PlainForm(u, e.val)
                    ELSE IF e.val.k = "str" THEN JStr(e.val.v)
                    ELSE IF e.val.k = "int" THEN JNum(e.val.v)
                    ELSE JNull])

PlainForm(u, x) ==
    LET fs == SelectSeq(u.Fields[x.t], LAMBDA f : Populated(x, f)) IN
    JRaw([i \in DOMAIN fs |-> <<fs[i].JSONName, PlainValue(u, fs[i], Get(x, fs[i]))>>])

\* any(v).(interface{ redact() map[string]any }) written in package pkg: the
\* method is unexported, so only a redact() generated in pkg itself satisfies it
HasRedact(resp, pkg, t) == \E g \in resp : g.Name = t /\ g.Pkg = pkg

ScalarJ(v) ==
    CASE v.k = "str" -> JStr(v.v)
      [] v.k = "int" -> JNum(v.v)
      [] v.k = "bool" -> JBool(v.v)
      [] v.k = "list" -> JArr([i \in DOMAIN v.v |-> IF v.v[i].k = "str" THEN JStr(v.v[i].v)
                                                     ELSE JNum(v.v[i].v)])

Put(m, key, val) == [y \in DOMAIN m \cup {key} |-> IF y = key THEN val ELSE m[y]]

\* fmt.Sprintf("%v", k) of a map key
SprintKey(kv) == IF kv.k = "str" THEN kv.v ELSE ToString(kv.v)

RECURSIVE redact(_, _, _)

\* lines 36-40, 53-57, 69-73, 77-81: recurse when the value has redact(),
\* otherwise embed its protojson form
redactValue(u, resp, pkg, v) ==
    IF HasRedact(resp, pkg, v.t) THEN JObj(redact(u, resp, v)) ELSE PlainForm(u, v)

\* variant: nil elements are dropped and the others appended
repeatedItems_skipNil(u, resp, pkg, l) ==
    LET kept == SelectSeq(l, LAMBDA item : item # Nil) IN
    [i \in DOMAIN kept |-> redactValue(u, resp, pkg, kept[i])]

\* lines 50-59: items := make([]any, len(x.F)); items[i] is set for non-nil items
repeatedItems(u, resp, pkg, l) ==
    [i \in DOMAIN l |-> IF l[i] # Nil THEN redactValue(u, resp, pkg, l[i]) ELSE JNull]

\* variant: a nil message value is kept as a null entry
mapItems_keepNil(u, resp, pkg, entries, valueIsMessage) ==
    LET at(ko) == CHOOSE e \in entries : SprintKey(e.key) = ko IN
    [ko \in {SprintKey(e.key) : e \in entries} |->
        IF ~valueIsMessage THEN ScalarJ(at(ko).val)
        ELSE IF at(ko).val = Nil THEN JNull
        ELSE redactValue(u, resp, pkg, at(ko).val)]

\* lines 31-45: mapVal, one entry per key; a nil message value adds no entry
mapItems(u, resp, pkg, entries, valueIsMessage) ==
    LET kept == IF valueIsMessage THEN {e \in entries : e.val # Nil} ELSE entries
        at(ko) == CHOOSE e \in kept : SprintKey(e.key) = ko IN
    [ko \in {SprintKey(e.key) : e \in kept} |->
        IF valueIsMessage THEN redactValue(u, resp, pkg, at(ko).val)
        ELSE ScalarJ(at(ko).val)]

\* one generated statement executed on x, with m the map built so far
stmtEffect(u, resp, x, st, m) ==
    LET f == FieldNamed(u, x.t, st.Field)
        v == Get(x, f)
        pkg == PkgOf(u, x.t)
        br == st.Branch IN
    CASE br = "RedactRepeated" -> Put(m, st.Key, JArr(<< >>))
      [] br = "RedactMap" -> Put(m, st.Key, JObj(<< >>))
      [] br = "RedactMessage" -> Put(m, st.Key, JNull)
      [] br \in {"RedactInteger", "RedactFloat", "RedactEnum"} -> Put(m, st.Key, JNum(st.Mask))
      [] br = "RedactBool" -> Put(m, st.Key, JBool(st.Mask))
      [] br \in {"RedactBytes", "RedactString"} -> Put(m, st.Key, JStr(st.Mask))
      [] br = "MapMessage" ->
            IF Cardinality(v.v) > 0
            THEN Put(m, st.Key, JObj(mapItems(u, resp, pkg, v.v, TRUE))) ELSE m
      [] br = "MapScalar" ->
            IF Cardinality(v.v) > 0
            THEN Put(m, st.Key, JObj(mapItems(u, resp, pkg, v.v, FALSE))) ELSE m
      [] br = "RepeatedMessage" ->
            IF Len(v.v) > 0
            THEN Put(m, st.Key, JArr(repeatedItems(u, resp, pkg, v.v))) ELSE m
      [] br = "RepeatedScalar" ->
            IF Len(v.v) > 0 THEN Put(m, st.Key, ScalarJ(v)) ELSE m
      [] br \in {"OneofMessage", "SingularMessage"} ->
            IF v # Nil THEN Put(m, st.Key, redactValue(u, resp, pkg, v)) ELSE m
      [] br \in {"OneofScalar", "Scalar"} -> Put(m, st.Key, ScalarJ(v))

RECURSIVE runBody(_, _, _, _, _, _)
runBody(u, resp, x, body, i, m) ==
    IF i > Len(body) THEN m
    ELSE runBody(u, resp, x, body, i + 1, stmtEffect(u, resp, x, body[i], m))

\* func (x *T) redact() map[string]any, for a non-nil x
redact(u, resp, x) ==
    LET g == CHOOSE g \in resp : g.Name = x.t IN
    runBody(u, resp, x, g.Body, 1, << >>)

\* variant: the nil guard is missing and the nil map is marshalled
Redact_noNilGuard(u, resp, x) ==
    IF x = Nil THEN Marshal(JNull) ELSE Marshal(JObj(redact(u, resp, x)))

\* func (x *T) Redact() string
Redact(u, resp, x) ==
    IF x = Nil THEN "{}" ELSE Marshal(JObj(redact(u, resp, x)))

(***************************************************************************)
(* The plugin run (func main): phase 1 computes needsRedact over gen.Files, *)
(* phase 2 generates every file with Generate set from it.                  *)
(***************************************************************************)
VARIABLES
    unit,          \* the compilation unit (gen.Files and the descriptors)
    scanDir,       \* the order in which phase 1 scans the messages
    pc,            \* position of main
    needsRedact,   \* the map returned by CollectGlobalRedactRequirements
    fileIdx,       \* index of the range loop over gen.Files
    generated,     \* generated units appended to the plugin so far
    response,      \* the generated units delivered when the run returns
    top,           \* the message type of the program variable x
    inst,          \* the message x points to, or Nil
    out,           \* the string the last x.Redact() returned
    outTree,       \* the map x.redact() built during that call
    snap,          \* the value of x when that call was made
    calls,         \* number of Redact() calls on the current x
    lpc,           \* position of the logging middleware
    skipRedact,    \* options.skipRedact
    req,           \* the request handed to the middleware
    reply,         \* the reply of the handler
    logArgs,       \* the "args" attribute of the last log record
    logReply,      \* the "reply" attribute of the last log record
    runner,        \* the election runner and its serveMachine goroutine
    writer,        \* the dailyRotateWriter and its concurrent Write calls
    enc            \* the EntEncryptor and its concurrent Encrypt and Clear calls

genVars == <<unit, scanDir, pc, needsRedact, fileIdx, generated, response>>
logVars == <<lpc, skipRedact, req, reply, logArgs, logReply>>
libVars == <<runner, writer, enc>>
rtVars == <<top, inst, out, outTree, snap, calls, logVars, libVars>>
vars == <<unit, scanDir, pc, needsRedact, fileIdx, generated, response,
          top, inst, out, outTree, snap, calls,
          lpc, skipRedact, req, reply, logArgs, logReply,
          runner, writer, enc>>

NoType == ""
NoOut == [none |-> TRUE]
NoArg == [none |-> TRUE]

\* no runner, writer or encryptor has been constructed
NoObject == [none |-> TRUE]

\* no middleware is installed
LogOff ==
    /\ runner = NoObject
    /\ writer = NoObject
    /\ enc = NoObject
    /\ lpc = "off"
    /\ skipRedact = FALSE
    /\ req = NoArg
    /\ reply = NoArg
    /\ logArgs = NoOut
    /\ logReply = NoOut

\* variant: only the files requested for output are analysed
AnalysisFiles_generateOnly(u) == SelectSeq(u.Files, LAMBDA f : f.Generate)

\* main line 27: the files handed to the global analysis
AnalysisFiles(u) == u.Files

\* GenerateFileWithGlobal: the messages of file f that get a capability
FileTargets(u, f, marks) ==
    SelectSeq(f.Messages, LAMBDA m : Marked(marks, m))

GenerateFileWithGlobal(u, f, marks) ==
    LET ms == FileTargets(u, f, marks) IN
    [i \in DOMAIN ms |-> execute(newMessageDesc(u, ms[i]))]

SynthUnits ==
    {SynthUnit(E, own, shape, layout, rq) :
        <<E, own, shape, layout, rq>> \in
            {t \in EdgeSets \X [Msgs -> BOOLEAN] \X OwnShapes \X Layouts \X Requests :
                LayoutOK(t[1], t[4], t[5])}}

Init ==
    /\ unit \in SynthUnits \cup DanglingUnits
    /\ scanDir \in ScanOrders
    /\ pc = "analyze"
    /\ needsRedact = << >>
    /\ fileIdx = 1
    /\ generated = {}
    /\ response = "none"
    /\ top = NoType
    /\ inst = Nil
    /\ out = NoOut
    /\ outTree = NoOut
    /\ snap = Nil
    /\ calls = 0
    /\ LogOff

\* protogen.Options.Run builds the plugin from the request before it calls
\* the function of main; a type reference it cannot resolve ends the process
\* with an error and without a response
LoadFail ==
    /\ pc = "analyze"
    /\ ~Resolved(unit)
    /\ pc' = "aborted"
    /\ UNCHANGED <<unit, scanDir, needsRedact, fileIdx, generated, response, rtVars>>

\* phase 1, step 1: seed
Seed ==
    /\ pc = "analyze"
    /\ Resolved(unit)
    /\ needsRedact' = SeedMarks(unit, AnalysisFiles(unit))
    /\ pc' = "propagate"
    /\ UNCHANGED <<unit, scanDir, fileIdx, generated, response, rtVars>>

\* variant: the loop ends after its first pass
PropagatePass_singlePass ==
    /\ pc = "propagate"
    /\ needsRedact' = PropagateOnce(unit, needsRedact,
                                    ScanSeq(AnalysisFiles(unit), scanDir))
    /\ pc' = "emit"
    /\ UNCHANGED <<unit, scanDir, fileIdx, generated, response, rtVars>>

\* phase 1, step 2: one full pass; the loop ends with the pass that adds no mark
PropagatePass ==
    /\ pc = "propagate"
    /\ LET next == PropagateOnce(unit, needsRedact,
                                 ScanSeq(AnalysisFiles(unit), scanDir)) IN
       /\ needsRedact' = next
       /\ pc' = IF next = needsRedact THEN "emit" ELSE "propagate"
    /\ UNCHANGED <<unit, scanDir, fileIdx, generated, response, rtVars>>

\* phase 2: if !f.Generate { continue }
SkipFile ==
    /\ pc = "emit"
    /\ fileIdx <= Len(unit.Files)
    /\ ~unit.Files[fileIdx].Generate
    /\ fileIdx' = fileIdx + 1
    /\ UNCHANGED <<unit, scanDir, pc, needsRedact, generated, response, rtVars>>

\* variant: the analysis is redone for the file being generated, over that file
\* alone, and replaces the shared map
GenerateFile_perFileAnalysis ==
    /\ pc = "emit"
    /\ fileIdx <= Len(unit.Files)
    /\ unit.Files[fileIdx].Generate
    /\ LET f == unit.Files[fileIdx]
           marks == CollectGlobalRedactRequirements(unit, <<f>>, scanDir)
           units == GenerateFileWithGlobal(unit, f, marks) IN
       /\ \A i \in DOMAIN units : ~units[i].Panic
       /\ needsRedact' = marks
       /\ generated' = generated \cup
              {[File |-> f.Name, Pkg |-> f.Pkg, Name |-> units[i].Name,
                Body |-> units[i].Body] : i \in DOMAIN units}
    /\ fileIdx' = fileIdx + 1
    /\ UNCHANGED <<unit, scanDir, pc, response, rtVars>>

\* phase 2: redact.GenerateFileWithGlobal(gen, f, needsRedact)
GenerateFile ==
    /\ pc = "emit"
    /\ fileIdx <= Len(unit.Files)
    /\ unit.Files[fileIdx].Generate
    /\ LET f == unit.Files[fileIdx]
           units == GenerateFileWithGlobal(unit, f, needsRedact) IN
       /\ \A i \in DOMAIN units : ~units[i].Panic
       /\ generated' = generated \cup
              {[File |-> f.Name, Pkg |-> f.Pkg, Name |-> units[i].Name,
                Body |-> units[i].Body] : i \in DOMAIN units}
    /\ fileIdx' = fileIdx + 1
    /\ UNCHANGED <<unit, scanDir, pc, needsRedact, response, rtVars>>

\* phase 2: execute() panics inside GenerateFileWithGlobal; the process dies
\* and no response is written
GeneratePanic ==
    /\ pc = "emit"
    /\ fileIdx <= Len(unit.Files)
    /\ unit.Files[fileIdx].Generate
    /\ LET units == GenerateFileWithGlobal(unit, unit.Files[fileIdx], needsRedact) IN
       \E i \in DOMAIN units : units[i].Panic
    /\ pc' = "panicked"
    /\ UNCHANGED <<unit, scanDir, needsRedact, fileIdx, generated, response, rtVars>>

\* return nil: protogen writes the response with the generated files
Return ==
    /\ pc = "emit"
    /\ fileIdx > Len(unit.Files)
    /\ pc' = "done"
    /\ response' = generated
    /\ UNCHANGED <<unit, scanDir, needsRedact, fileIdx, generated, rtVars>>

Next ==
    \/ LoadFail
    \/ Seed
    \/ PropagatePass
    \/ SkipFile
    \/ GenerateFile
    \/ GeneratePanic
    \/ Return

Spec == Init /\ [][Next]_vars

\* phase 1 alone, over the units of one file: main is one sequential function,
\* so a pass that can be taken is taken
InitLoop ==
    /\ unit \in {SynthUnit(E, own, "composite", "single", "all") :
                    E \in EdgeSets, own \in [Msgs -> BOOLEAN]}
    /\ scanDir \in ScanOrders
    /\ pc = "analyze"
    /\ needsRedact = << >>
    /\ fileIdx = 1
    /\ generated = {}
    /\ response = "none"
    /\ top = NoType
    /\ inst = Nil
    /\ out = NoOut
    /\ outTree = NoOut
    /\ snap = Nil
    /\ calls = 0
    /\ LogOff

NextLoop == Seed \/ PropagatePass

SpecLoop == InitLoop /\ [][NextLoop]_vars /\ WF_vars(NextLoop)

(***************************************************************************)
(* A program using the generated code: the plugin runs over the unit, then  *)
(* the program constructs a message and calls Redact() on it.               *)
(***************************************************************************)
MaxCalls == 2

Out(text) == [text |-> text]
Tree(m) == [tree |-> m]

\* the plugin runs over the unit; T is the type the program then uses
InitRedact ==
    /\ unit \in RuntimeUnits
    /\ scanDir = "forward"
    /\ pc = "analyze"
    /\ needsRedact = << >>
    /\ fileIdx = 1
    /\ generated = {}
    /\ response = "none"
    /\ top \in UnitMsgs(unit)
    /\ inst = Nil
    /\ out = NoOut
    /\ outTree = NoOut
    /\ snap = Nil
    /\ calls = 0
    /\ LogOff

\* var x *T is assigned once: x = &T{...}
Construct ==
    /\ pc = "done"
    /\ inst = Nil
    /\ calls = 0
    /\ inst' \in Instances(unit, top)
    /\ out' = NoOut
    /\ outTree' = NoOut
    /\ snap' = Nil
    /\ calls' = 0
    /\ UNCHANGED <<genVars, libVars, top, logVars>>

\* variant: the masks are written into the instance itself
CallRedact_maskInPlace ==
    /\ pc = "done"
    /\ \E g \in response : g.Name = top
    /\ calls < MaxCalls
    /\ out' = Out(Redact(unit, response, inst))
    /\ outTree' = IF inst = Nil THEN NoOut ELSE Tree(redact(unit, response, inst))
    /\ snap' = inst
    /\ calls' = calls + 1
    /\ inst' = IF inst = Nil THEN Nil
               ELSE Msg(inst.t,
                        [key \in DOMAIN inst.f |->
                            IF \E i \in DOMAIN unit.Fields[top] :
                                    /\ unit.Fields[top][i].JSONName = key
                                    /\ unit.Fields[top][i].Oneof = NoOneof
                                    /\ unit.Fields[top][i].Redact
                            THEN (IF FieldNamed(unit, top, key).Card = "repeated"
                                  THEN List(<< >>) ELSE Zero(FieldNamed(unit, top, key)))
                            ELSE inst.f[key]])
    /\ UNCHANGED <<genVars, libVars, top, logVars>>

\* variant: the keys are written in the iteration order of the Go map, which
\* differs from one call to the next
CallRedact_iterationOrder ==
    /\ pc = "done"
    /\ \E g \in response : g.Name = top
    /\ calls < MaxCalls
    /\ out' = IF inst = Nil THEN Out("{}")
              ELSE LET m == redact(unit, response, inst)
                       ks == IF calls % 2 = 1 THEN Reverse(SortedKeys(DOMAIN m))
                             ELSE SortedKeys(DOMAIN m) IN
                   Out(Marshal(JRaw([i \in DOMAIN ks |-> <<ks[i], m[ks[i]]>>])))
    /\ outTree' = IF inst = Nil THEN NoOut ELSE Tree(redact(unit, response, inst))
    /\ snap' = inst
    /\ calls' = calls + 1
    /\ UNCHANGED <<genVars, libVars, top, inst, logVars>>

\* s := x.Redact(), which exists only when T has a generated capability
CallRedact ==
    /\ pc = "done"
    /\ \E g \in response : g.Name = top
    /\ calls < MaxCalls
    /\ out' = Out(Redact(unit, response, inst))
    /\ outTree' = IF inst = Nil THEN NoOut ELSE Tree(redact(unit, response, inst))
    /\ snap' = inst
    /\ calls' = calls + 1
    /\ UNCHANGED <<genVars, libVars, top, inst, logVars>>

NextRedact ==
    \/ Seed
    \/ PropagatePass
    \/ SkipFile
    \/ GenerateFile
    \/ GeneratePanic
    \/ Return
    \/ Construct
    \/ CallRedact

SpecRedact == InitRedact /\ [][NextRedact]_vars

(***************************************************************************)
(* The kratos logging middleware (logging/kratos/logging.go): Server and     *)
(* Client wrap a handler and log the request and the reply through          *)
(* extractArgs.                                                             *)
(***************************************************************************)
PayloadIds == {"a", "b"}

\* a Go value by the interfaces its type implements; a nil interface value
\* implements none
Arg(id, redacter, pm, stringer) ==
    [id |-> id, Redacter |-> redacter, ProtoMessage |-> pm, Stringer |-> stringer]

NilArg == Arg("nil", FALSE, FALSE, FALSE)

Args ==
    {NilArg} \cup {Arg(id, r, p, g) : id \in PayloadIds, r \in BOOLEAN, p \in BOOLEAN,
                                      g \in BOOLEAN}

\* what each serialisation of a value returns
RedactText(a) == "{\"redacted\":\"" \o a.id \o "\"}"
ProtoText(a) == "{\"proto\":\"" \o a.id \o "\"}"
StringText(a) == "String(" \o a.id \o ")"
SprintfText(a) == IF a = NilArg THEN "<nil>" ELSE "&{" \o a.id \o "}"

RawMessage(text) == [type |-> "json.RawMessage", text |-> text]
GoString(text) == [type |-> "string", text |-> text]

\* variant: the proto.Message path is tried before Redacter
extractArgs_protoFirst(args, skip) ==
    IF args.ProtoMessage THEN RawMessage(ProtoText(args))
    ELSE IF ~skip /\ args.Redacter THEN RawMessage(RedactText(args))
    ELSE IF args.Stringer THEN GoString(StringText(args))
    ELSE GoString(SprintfText(args))

\* func extractArgs(args any, skipRedact bool) any
extractArgs(args, skip) ==
    IF ~skip /\ args.Redacter THEN RawMessage(RedactText(args))
    ELSE IF args.ProtoMessage THEN RawMessage(ProtoText(args))
    ELSE IF args.Stringer THEN GoString(StringText(args))
    ELSE GoString(SprintfText(args))

InitLog ==
    /\ unit = ReadmeUnit
    /\ scanDir = "forward"
    /\ pc = "analyze"
    /\ needsRedact = << >>
    /\ fileIdx = 1
    /\ generated = {}
    /\ response = "none"
    /\ top = NoType
    /\ inst = Nil
    /\ out = NoOut
    /\ outTree = NoOut
    /\ snap = Nil
    /\ calls = 0
    /\ runner = NoObject
    /\ writer = NoObject
    /\ enc = NoObject
    /\ lpc = "new"
    /\ skipRedact = FALSE
    /\ req = NoArg
    /\ reply = NoArg
    /\ logArgs = NoOut
    /\ logReply = NoOut

\* Server(logger, opts...) / Client(logger, opts...): the options are applied
NewMiddleware ==
    /\ lpc = "new"
    /\ \E withSkipRedact \in BOOLEAN : skipRedact' = withSkipRedact
    /\ lpc' = "ready"
    /\ UNCHANGED <<genVars, libVars, top, inst, out, outTree, snap, calls,
                   req, reply, logArgs, logReply>>

\* a request arrives and reply, err = handler(ctx, req) returns
Handle ==
    /\ lpc \in {"ready", "logged"}
    /\ req' \in Args
    /\ reply' \in Args
    /\ logArgs' = NoOut
    /\ logReply' = NoOut
    /\ lpc' = "handled"
    /\ UNCHANGED <<genVars, libVars, top, inst, out, outTree, snap, calls, skipRedact>>

\* logger.Log(..., "args", extractArgs(req, ...), "reply", extractArgs(reply, ...))
Log ==
    /\ lpc = "handled"
    /\ logArgs' = extractArgs(req, skipRedact)
    /\ logReply' = extractArgs(reply, skipRedact)
    /\ lpc' = "logged"
    /\ UNCHANGED <<genVars, libVars, top, inst, out, outTree, snap, calls,
                   skipRedact, req, reply>>

NextLog ==
    \/ NewMiddleware
    \/ Handle
    \/ Log

SpecLog == InitLog /\ [][NextLog]_vars

(***************************************************************************)
(* The election runner (package election): AddMachine starts a serveMachine *)
(* goroutine, the leader elector's callbacks send on isLeaderChan, and the  *)
(* cleanup function closes the runner and waits for the goroutines.  The    *)
(* fields noted, ensured and late record what serveMachine has done so far. *)
(***************************************************************************)
MaxNotes == 2

\* os.Hostname() as NewStateMachineRunnerImpl stores it in s.pod
Pods == {"", "pod-0"}

\* leaderelection.NewLeaderElector rejects a lock whose identity is empty
ElectorError(pod) == pod = ""

InitRunner ==
    /\ unit = ReadmeUnit
    /\ scanDir = "forward"
    /\ pc = "analyze"
    /\ needsRedact = << >>
    /\ fileIdx = 1
    /\ generated = {}
    /\ response = "none"
    /\ top = NoType
    /\ inst = Nil
    /\ out = NoOut
    /\ outTree = NoOut
    /\ snap = Nil
    /\ calls = 0
    /\ lpc = "off"
    /\ skipRedact = FALSE
    /\ req = NoArg
    /\ reply = NoArg
    /\ logArgs = NoOut
    /\ logReply = NoOut
    /\ writer = NoObject
    /\ enc = NoObject
    /\ \E pod \in Pods :
          runner = [pod |-> pod, closed |-> FALSE, cancelled |-> FALSE, wg |-> 0,
                    cleanup |-> "idle", mpc |-> "none", isLeader |-> FALSE,
                    notes |-> << >>, noted |-> FALSE, ensured |-> "none",
                    late |-> FALSE]

RunnerFrame == UNCHANGED <<genVars, top, inst, out, outTree, snap, calls, logVars,
                           writer, enc>>

\* the deferred calls of serveMachine: cancel, machine.Cleanup, s.wg.Done
Returned(r) == [r EXCEPT !.mpc = "returned", !.wg = @ - 1]

\* AddMachine: s.wg.Add(1); go s.serveMachine(machine)
AddMachine ==
    /\ runner.mpc = "none"
    /\ runner' = [runner EXCEPT !.mpc = "create", !.wg = @ + 1]
    /\ RunnerFrame

\* lines 122-126: the elector cannot be created; serveMachine returns before
\* any defer statement has run
NewElectorFails ==
    /\ runner.mpc = "create"
    /\ ElectorError(runner.pod)
    /\ runner' = [runner EXCEPT !.mpc = "returned"]
    /\ RunnerFrame

\* lines 128-137: the defers are registered and le.Run is started
StartServe ==
    /\ runner.mpc = "create"
    /\ ~ElectorError(runner.pod)
    /\ runner' = [runner EXCEPT !.mpc = "first"]
    /\ RunnerFrame

\* a callback of the elector sends on isLeaderChan
Notify ==
    /\ runner.mpc \in {"first", "ensure", "loop", "do", "wait"}
    /\ Len(runner.notes) < MaxNotes
    /\ \E v \in BOOLEAN : runner' = [runner EXCEPT !.notes = Append(@, v)]
    /\ RunnerFrame

\* case isLeader = <-isLeaderChan, in the first select or in the loop's
Receive_skipEnsure ==
    /\ runner.mpc \in {"first", "wait"}
    /\ runner.notes # << >>
    /\ runner' = [runner EXCEPT !.isLeader = Head(runner.notes),
                                !.notes = Tail(@),
                                !.mpc = IF runner.mpc = "wait" THEN "loop" ELSE "ensure",
                                !.noted = TRUE,
                                !.ensured = "pending",
                                !.late = (runner.mpc = "wait")]
    /\ RunnerFrame

Receive ==
    /\ runner.mpc \in {"first", "wait"}
    /\ runner.notes # << >>
    /\ runner' = [runner EXCEPT !.isLeader = Head(runner.notes),
                                !.notes = Tail(@),
                                !.mpc = "ensure",
                                !.noted = TRUE,
                                !.ensured = "pending",
                                !.late = (runner.mpc = "wait")]
    /\ RunnerFrame

\* ensure(): EnsureMaster or EnsureSlave by isLeader; an error ends serveMachine
Ensure ==
    /\ runner.mpc = "ensure"
    /\ \E ok \in BOOLEAN :
          runner' = IF ok
                    THEN [runner EXCEPT !.mpc = "loop",
                                        !.ensured = IF runner.isLeader THEN "master"
                                                    ELSE "slave"]
                    ELSE Returned([runner EXCEPT !.ensured = "failed"])
    /\ RunnerFrame

\* for !s.closed: the read is not synchronised with the write of cleanup, so
\* after the write it may still see false
LoopCheck ==
    /\ runner.mpc = "loop"
    /\ \E seen \in (IF runner.closed THEN BOOLEAN ELSE {FALSE}) :
          runner' = IF seen THEN Returned(runner) ELSE [runner EXCEPT !.mpc = "do"]
    /\ RunnerFrame

\* after := machine.Do(ctx); if after <= 0 { return }
Do ==
    /\ runner.mpc = "do"
    /\ \E positive \in BOOLEAN :
          runner' = IF positive THEN [runner EXCEPT !.mpc = "wait"] ELSE Returned(runner)
    /\ RunnerFrame

\* case <-time.After(after)
TimerFires ==
    /\ runner.mpc = "wait"
    /\ runner' = [runner EXCEPT !.mpc = "loop"]
    /\ RunnerFrame

\* case <-ctx.Done(), in the first select or in the loop's
CtxDone ==
    /\ runner.mpc \in {"first", "wait"}
    /\ runner.cancelled
    /\ runner' = Returned(runner)
    /\ RunnerFrame

\* cleanup, lines 71-72: s.closed = true; s.cancel()
CleanupCancel ==
    /\ runner.cleanup = "idle"
    /\ runner' = [runner EXCEPT !.closed = TRUE, !.cancelled = TRUE,
                                !.cleanup = "waiting"]
    /\ RunnerFrame

\* cleanup, line 73: s.wg.Wait() returns when the counter is zero
CleanupWait ==
    /\ runner.cleanup = "waiting"
    /\ runner.wg = 0
    /\ runner' = [runner EXCEPT !.cleanup = "returned"]
    /\ RunnerFrame

NextRunner ==
    \/ AddMachine
    \/ NewElectorFails
    \/ StartServe
    \/ Notify
    \/ Receive
    \/ Ensure
    \/ LoopCheck
    \/ Do
    \/ TimerFires
    \/ CtxDone
    \/ CleanupCancel
    \/ CleanupWait

SpecRunner == InitRunner /\ [][NextRunner]_vars

(***************************************************************************)
(* dailyRotateWriter (zap/rotate.go): concurrent Write calls share the day  *)
(* number w.n, which they read with atomic.LoadUint32 and advance with      *)
(* atomic.CompareAndSwapUint32.  The fields rot and observed record the     *)
(* Rotate calls and the new days seen so far.                               *)
(***************************************************************************)
MaxDay == 2

Days == 0..MaxDay
Writers == {"w1", "w2"}

InitWriter ==
    /\ unit = ReadmeUnit
    /\ scanDir = "forward"
    /\ pc = "analyze"
    /\ needsRedact = << >>
    /\ fileIdx = 1
    /\ generated = {}
    /\ response = "none"
    /\ top = NoType
    /\ inst = Nil
    /\ out = NoOut
    /\ outTree = NoOut
    /\ snap = Nil
    /\ calls = 0
    /\ lpc = "off"
    /\ skipRedact = FALSE
    /\ req = NoArg
    /\ reply = NoArg
    /\ logArgs = NoOut
    /\ logReply = NoOut
    /\ runner = NoObject
    /\ enc = NoObject
    /\ writer = [n |-> 0, clock |-> 0,
                 wpc |-> [w \in Writers |-> "idle"],
                 now |-> [w \in Writers |-> 0],
                 t |-> [w \in Writers |-> 0],
                 rot |-> [d \in Days |-> 0],
                 observed |-> {}]

WriterFrame == UNCHANGED <<genVars, top, inst, out, outTree, snap, calls, logVars,
                           runner, enc>>

\* the wall clock passes midnight
Tick ==
    /\ writer.clock < MaxDay
    /\ writer' = [writer EXCEPT !.clock = @ + 1]
    /\ WriterFrame

\* line 35: now := atomic.LoadUint32(&w.n)
Load(w) ==
    /\ writer.wpc[w] = "idle"
    /\ writer' = [writer EXCEPT !.wpc[w] = "loaded", !.now[w] = writer.n]
    /\ WriterFrame

\* line 36: t := getUnixDays(time.Now())
ReadClock(w) ==
    /\ writer.wpc[w] = "loaded"
    /\ writer' = [writer EXCEPT !.wpc[w] = "timed", !.t[w] = writer.clock]
    /\ WriterFrame

\* variant: the new day is stored without comparing
Swap_plainStore(w) ==
    /\ writer.wpc[w] = "timed"
    /\ LET newDay == writer.t[w] > writer.now[w] IN
       writer' = [writer EXCEPT
                     !.n = IF newDay THEN writer.t[w] ELSE @,
                     !.wpc[w] = IF newDay THEN "rotate" ELSE "write",
                     !.observed = IF newDay THEN @ \cup {writer.t[w]} ELSE @]
    /\ WriterFrame

\* line 37: t > now && atomic.CompareAndSwapUint32(&w.n, now, t)
Swap(w) ==
    /\ writer.wpc[w] = "timed"
    /\ LET newDay == writer.t[w] > writer.now[w]
           swapped == newDay /\ writer.n = writer.now[w] IN
       writer' = [writer EXCEPT
                     !.n = IF swapped THEN writer.t[w] ELSE @,
                     !.wpc[w] = IF swapped THEN "rotate" ELSE "write",
                     !.observed = IF newDay THEN @ \cup {writer.t[w]} ELSE @]
    /\ WriterFrame

\* lines 38-40: w.Logger.Rotate(); an error returns from Write
Rotate(w) ==
    /\ writer.wpc[w] = "rotate"
    /\ \E ok \in BOOLEAN :
          writer' = [writer EXCEPT !.wpc[w] = IF ok THEN "write" ELSE "idle",
                                   !.rot[writer.t[w]] = @ + 1]
    /\ WriterFrame

\* line 42: return w.Logger.Write(p)
WriteFile(w) ==
    /\ writer.wpc[w] = "write"
    /\ writer' = [writer EXCEPT !.wpc[w] = "idle"]
    /\ WriterFrame

NextWriter ==
    \/ Tick
    \/ \E w \in Writers : Load(w)
    \/ \E w \in Writers : ReadClock(w)
    \/ \E w \in Writers : Swap(w)
    \/ \E w \in Writers : Rotate(w)
    \/ \E w \in Writers : WriteFile(w)

SpecWriter == InitWriter /\ [][NextWriter]_vars

(***************************************************************************)
(* EntEncryptor (ent/encrypt.go): Encrypt copies e.gcm and the slice e.key  *)
(* under the read lock and works on the copies after releasing it; Clear    *)
(* zeroes the bytes of e.key in place under the write lock.  The slice      *)
(* Encrypt holds shares its array with e.key.  gcm keeps the key schedule   *)
(* it was built with.  The field late records whether the current Encrypt   *)
(* call began after Clear had returned.                                     *)
(***************************************************************************)
KeyLen == 2

\* the key the encryptor was built with, and a byte Clear has written
OriginalKey == [i \in 1..KeyLen |-> "k"]
Zeroed == "0"

NoNonce == [kind |-> "none", hmacKey |-> << >>, text |-> ""]
RandomNonce == [kind |-> "random", hmacKey |-> << >>, text |-> ""]

Plaintexts == {"", "p", "q"}

InitEnc ==
    /\ unit = ReadmeUnit
    /\ scanDir = "forward"
    /\ pc = "analyze"
    /\ needsRedact = << >>
    /\ fileIdx = 1
    /\ generated = {}
    /\ response = "none"
    /\ top = NoType
    /\ inst = Nil
    /\ out = NoOut
    /\ outTree = NoOut
    /\ snap = Nil
    /\ calls = 0
    /\ lpc = "off"
    /\ skipRedact = FALSE
    /\ req = NoArg
    /\ reply = NoArg
    /\ logArgs = NoOut
    /\ logReply = NoOut
    /\ runner = NoObject
    /\ writer = NoObject
    /\ \E det \in BOOLEAN :
          enc = [array |-> OriginalKey, key |-> "array", gcm |-> "gcm",
                 deterministic |-> det, locked |-> FALSE,
                 epc |-> "idle", plaintext |-> "", lgcm |-> "nil", lkey |-> "nil",
                 ldet |-> FALSE, nonce |-> NoNonce, result |-> "none",
                 cpc |-> "idle", i |-> 1, late |-> FALSE]

EncFrame == UNCHANGED <<genVars, top, inst, out, outTree, snap, calls, logVars,
                        runner, writer>>

\* Encrypt(plaintext) is called; the empty plaintext returns "", nil at once
EncryptCall ==
    /\ enc.epc \in {"idle", "returned"}
    /\ \E p \in Plaintexts :
          enc' = [enc EXCEPT !.plaintext = p,
                             !.epc = IF p = "" THEN "returned" ELSE "called",
                             !.result = IF p = "" THEN "empty" ELSE "none",
                             !.nonce = NoNonce,
                             !.late = (enc.cpc = "returned")]
    /\ EncFrame

\* lines 160-164: gcm, the slice key and deterministic are copied under the
\* read lock
ReadFields ==
    /\ enc.epc = "called"
    /\ ~enc.locked
    /\ enc' = [enc EXCEPT !.lgcm = enc.gcm, !.lkey = enc.key,
                          !.ldet = enc.deterministic, !.epc = "copied"]
    /\ EncFrame

\* lines 166-171: a nil gcm or a nil key is an error
CheckCleared ==
    /\ enc.epc = "copied"
    /\ enc' = IF enc.lgcm = "nil" \/ enc.lkey = "nil"
              THEN [enc EXCEPT !.epc = "returned", !.result = "error"]
              ELSE [enc EXCEPT !.epc = "checked"]
    /\ EncFrame

\* lines 176-188: the nonce is the HMAC of the plaintext under the bytes the
\* slice key refers to now, or random
MakeNonce ==
    /\ enc.epc = "checked"
    /\ enc' = [enc EXCEPT !.nonce = IF enc.ldet
                                    THEN [kind |-> "hmac", hmacKey |-> enc.array,
                                          text |-> enc.plaintext]
                                    ELSE RandomNonce,
                          !.epc = "nonce"]
    /\ EncFrame

\* lines 191-194: gcm.Seal with the copied gcm
Seal ==
    /\ enc.epc = "nonce"
    /\ enc' = [enc EXCEPT !.result = "ciphertext", !.epc = "returned"]
    /\ EncFrame

\* Clear, line 236: e.mu.Lock()
ClearLock ==
    /\ enc.cpc = "idle"
    /\ ~enc.locked
    /\ enc' = [enc EXCEPT !.locked = TRUE, !.cpc = "zeroing"]
    /\ EncFrame

\* Clear, lines 240-242: e.key[i] = 0
ClearByte ==
    /\ enc.cpc = "zeroing"
    /\ enc.i <= KeyLen
    /\ enc' = [enc EXCEPT !.array[enc.i] = Zeroed, !.i = @ + 1]
    /\ EncFrame

\* Clear, lines 243-244 and the deferred Unlock
ClearReturn ==
    /\ enc.cpc = "zeroing"
    /\ enc.i > KeyLen
    /\ enc' = [enc EXCEPT !.key = "nil", !.gcm = "nil", !.locked = FALSE,
                          !.cpc = "returned"]
    /\ EncFrame

NextEnc ==
    \/ EncryptCall
    \/ ReadFields
    \/ CheckCleared
    \/ MakeNonce
    \/ Seal
    \/ ClearLock
    \/ ClearByte
    \/ ClearReturn

SpecEnc == InitEnc /\ [][NextEnc]_vars

PropagationFinished == pc \in {"emit", "done", "panicked"}
RunEnded == pc \in {"done", "panicked"}

\* the capabilities the run delivered
Capabilities == IF pc = "done" THEN {g.Name : g \in response} ELSE {}

(***************************************************************************)
(* Reachability along message-valued field edges, by path length.           *)
(***************************************************************************)
EdgeTargets(u, m) ==
    {u.Fields[m][i].Target : i \in {j \in DOMAIN u.Fields[m] : IsMessageEdge(u.Fields[m][j])}}

RECURSIVE ReachWithin(_, _, _)
ReachWithin(u, m, n) ==
    IF n = 0 THEN {m}
    ELSE LET prev == ReachWithin(u, m, n - 1) IN
         prev \cup UNION {EdgeTargets(u, x) \cap UnitMsgs(u) : x \in prev}

Reachable(u, m) == ReachWithin(u, m, Cardinality(UnitMsgs(u)))

\* m owns a redact=true field or reaches a message that does
Sensitive(u, m) == \E t \in Reachable(u, m) : OwnsRedact(u, t)


(***************************************************************************)
(* Claims about the Requirement Propagator.                                 *)
(***************************************************************************)

\* C1: once propagation has finished, every message of the compilation unit
\* that owns a redact=true field, or reaches such a message along
\* message-valued fields (any shape, any path length), is true in needsRedact.
C1_SensitiveMarked ==
    PropagationFinished =>
        \A m \in UnitMsgs(unit) : Sensitive(unit, m) => Marked(needsRedact, m)

\* C1 witness: propagation has finished and a message without a redact field
\* of its own is marked because of a message two edges away.
C1_Witness ==
    /\ PropagationFinished
    /\ \E a, b, c \in UnitMsgs(unit) :
          /\ a # b /\ b # c /\ a # c
          /\ b \in EdgeTargets(unit, a) /\ c \in EdgeTargets(unit, b)
          /\ c \notin EdgeTargets(unit, a)
          /\ ~OwnsRedact(unit, a) /\ ~OwnsRedact(unit, b) /\ OwnsRedact(unit, c)
          /\ Marked(needsRedact, a)

\* C2: once propagation has finished, needsRedact is defined for every message
\* of the unit and a message that neither owns a redact=true field nor reaches
\* a message owning one is false; a message without fields is false.
C2_LeastAndTotal ==
    PropagationFinished =>
        /\ DOMAIN needsRedact = UnitMsgs(unit)
        /\ \A m \in UnitMsgs(unit) : ~Sensitive(unit, m) => ~needsRedact[m]
        /\ \A m \in UnitMsgs(unit) : Len(unit.Fields[m]) = 0 => ~needsRedact[m]

\* C2 witness: propagation has finished with a marked message, an unmarked
\* message that has an edge (to another unmarked message) and an unmarked
\* message without fields.
C2_Witness ==
    /\ PropagationFinished
    /\ \E a, b, c \in UnitMsgs(unit) :
          /\ Marked(needsRedact, a)
          /\ b \in EdgeTargets(unit, a) /\ Marked(needsRedact, b)
          /\ Len(unit.Fields[c]) = 0 /\ ~needsRedact[c]
    /\ \E m \in UnitMsgs(unit) :
          EdgeTargets(unit, m) # {} /\ ~Marked(needsRedact, m)

OnCycle(u, a, b) ==
    /\ b \in UNION {Reachable(u, x) : x \in EdgeTargets(u, a) \cap UnitMsgs(u)}
    /\ a \in UNION {Reachable(u, x) : x \in EdgeTargets(u, b) \cap UnitMsgs(u)}

\* C3: if the message graph has a cycle (two messages referring to each other,
\* or a message referring to itself) and a message on it owns a redact=true
\* field, every message on the cycle is true once propagation has finished,
\* in either scan order.
C3_CycleMarked ==
    PropagationFinished =>
        \A a, b \in UnitMsgs(unit) :
            (OnCycle(unit, a, b) /\ OwnsRedact(unit, a)) =>
                (Marked(needsRedact, a) /\ Marked(needsRedact, b))

\* C3 witness: a two-message cycle whose only redact owner is scanned after
\* the other message, both marked at the end.
C3_Witness ==
    /\ PropagationFinished
    /\ \E a, b \in UnitMsgs(unit) :
          /\ a # b
          /\ b \in EdgeTargets(unit, a) /\ a \in EdgeTargets(unit, b)
          /\ OwnsRedact(unit, a) /\ ~OwnsRedact(unit, b)
          /\ \A t \in EdgeTargets(unit, b) : t = a
          /\ LET order == ScanSeq(AnalysisFiles(unit), scanDir) IN
             \E i, j \in DOMAIN order : order[i] = b /\ order[j] = a /\ i < j
          /\ Marked(needsRedact, a) /\ Marked(needsRedact, b)

\* m has no redact field in its own file but reaches a sensitive message that
\* another file declares
CrossFileOnly(u, m) ==
    /\ \A x \in Range(u.Files[FileOf(u, m)].Messages) : ~OwnsRedact(u, x)
    /\ \E t \in Reachable(u, m) : OwnsRedact(u, t) /\ FileOf(u, t) # FileOf(u, m)

\* C4: when the run has ended, a message of a requested file that has no
\* redact=true field in its own file but reaches a sensitive message of another
\* file of the unit (requested or not) is true in needsRedact and has a
\* generated Redact capability.
C4_CrossFileCapability ==
    RunEnded =>
        \A m \in UnitMsgs(unit) :
            (unit.Files[FileOf(unit, m)].Generate /\ CrossFileOnly(unit, m)) =>
                (Marked(needsRedact, m) /\ m \in Capabilities)

\* C4, RequirementSet half: such a message is true in needsRedact.
C4_CrossFileMarked ==
    PropagationFinished =>
        \A m \in UnitMsgs(unit) : CrossFileOnly(unit, m) => Marked(needsRedact, m)


(***************************************************************************)
(* Claims about the generated Redact().                                     *)
(***************************************************************************)
Called == calls > 0 /\ snap # Nil

\* a singular scalar field (not a message, not repeated)
IsScalarField(f) == f.Card = "singular" /\ f.Kind # "message"

DeclaresRedactScalar(u, t) ==
    \E i \in DOMAIN u.Fields[t] : u.Fields[t][i].Redact /\ IsScalarField(u.Fields[t][i])

\* the mask the option resolves to: the declared override or the type default
ResolvedMask(f) ==
    LET fd == newFieldDesc(f) IN
    IF fd.IsInteger THEN JNum(fd.IntMask) ELSE JStr(fd.StringMask)

\* x with every redact=true scalar field set to the zero value
ScrubScalars(u, x) ==
    Msg(x.t,
        [key \in DOMAIN x.f |->
            IF \E i \in DOMAIN u.Fields[x.t] :
                    /\ u.Fields[x.t][i].JSONName = key
                    /\ u.Fields[x.t][i].Redact
                    /\ IsScalarField(u.Fields[x.t][i])
            THEN Zero(FieldNamed(u, x.t, key))
            ELSE x.f[key]])

\* C5: every message type that declares a redact=true scalar field gets a
\* Redact() whose output is the same for instances that differ only in such
\* fields, and the value under the field's key is its resolved mask.
C5_ScalarMasked ==
    \A t \in UnitMsgs(unit) :
        RunEnded /\ DeclaresRedactScalar(unit, t) =>
            /\ t \in Capabilities
            /\ \A x \in Instances(unit, t) :
                /\ Redact(unit, response, x) = Redact(unit, response, ScrubScalars(unit, x))
                /\ \A i \in DOMAIN unit.Fields[t] :
                      LET f == unit.Fields[t][i] IN
                      f.Redact /\ IsScalarField(f) =>
                          redact(unit, response, x)[f.JSONName] = ResolvedMask(f)

\* the empty value of a field: nil message, empty list, zero scalar
Blank(f) == IF f.Card = "repeated" THEN List(<< >>) ELSE Zero(f)


RECURSIVE ScrubAll(_, _)
ScrubValue(u, f, v, own) ==
    IF f.Redact THEN (IF own THEN Blank(f) ELSE v)
    ELSE IF f.Kind # "message" THEN v
    ELSE IF f.Card = "map"
         THEN Map({Entry(e.key, IF e.val = Nil THEN Nil ELSE ScrubAll(u, e.val)) : e \in v.v})
    ELSE IF f.Card = "repeated"
         THEN List([n \in DOMAIN v.v |-> IF v.v[n] = Nil THEN Nil ELSE ScrubAll(u, v.v[n])])
    ELSE IF v = Nil THEN Nil ELSE ScrubAll(u, v)

\* x with the values of the redact=true fields removed, in x itself when own is
\* set and in every message nested through non-redacted message fields
Scrub(u, x, own) ==
    Msg(x.t,
        [key \in DOMAIN x.f |->
            IF key \in OneofGroups(u, x.t)
            THEN (IF x.f[key].k = "alt"
                  THEN Alt(x.f[key].alt,
                           ScrubValue(u, FieldNamed(u, x.t, x.f[key].alt), x.f[key].v, own))
                  ELSE x.f[key])
            ELSE ScrubValue(u, FieldNamed(u, x.t, key), x.f[key], own)])

ScrubAll(u, x) == Scrub(u, x, TRUE)
ScrubNested(u, x) == Scrub(u, x, FALSE)

\* C6: the output of Redact() is the output for the instance without the values
\* of the redact=true fields of its nested messages, and every non-redacted
\* scalar field of the outer message keeps its value.
C6_NestedMasked ==
    Called =>
        /\ out = Out(Redact(unit, response, ScrubNested(unit, snap)))
        /\ \A i \in DOMAIN unit.Fields[top] :
              LET f == unit.Fields[top][i] IN
              ~f.Redact /\ IsScalarField(f) /\ f.Oneof = NoOneof =>
                  outTree.tree[f.JSONName] = ScalarJ(snap.f[f.JSONName])

\* C7: Redact() on a nil instance of a type with a generated capability
\* returns the literal {}.
C7_NilIsEmptyObject ==
    calls > 0 /\ snap = Nil => top \in Capabilities /\ out = Out("{}")

C7_Witness == calls > 0 /\ snap = Nil /\ top \in Capabilities /\ out = Out("{}")

\* the keys of document m in the declaration order of the fields of t
DeclaredKeys(u, t, m) ==
    SelectSeq([i \in DOMAIN u.Fields[t] |-> u.Fields[t][i].JSONName],
              LAMBDA key : key \in DOMAIN m)

InDeclarationOrder(u, t, m) ==
    LET ks == DeclaredKeys(u, t, m) IN
    Marshal(JRaw([i \in DOMAIN ks |-> <<ks[i], m[ks[i]]>>]))

JohnDoe ==
    Msg("User", [name |-> Str("John Doe"), email |-> Str("john@x.com"),
                 password |-> Str("secret123"), age |-> Num(30)])

\* C8: Redact() on a populated instance returns the object with its keys in
\* field declaration order, and the README User holding John Doe redacts to
\* {"name":"John Doe","email":"*","password":"[HIDDEN]","age":30}.
C8_DeclarationOrder ==
    /\ Called => out = Out(InDeclarationOrder(unit, top, outTree.tree))
    /\ RunEnded /\ unit = ReadmeUnit =>
          /\ "User" \in Capabilities
          /\ Redact(unit, response, JohnDoe) =
                "{\"name\":\"John Doe\",\"email\":\"*\",\"password\":\"[HIDDEN]\",\"age\":30}"

GroupKeys(u, t, g) == {u.Fields[t][i].JSONName : i \in GroupAlts(u, t, g)}

\* C9: for every oneof group the output holds the key of the alternative that
\* is set and of no other alternative, and no key of the group when none is set.
C9_OneofAtMostOne ==
    Called =>
        \A g \in OneofGroups(unit, top) :
            GroupKeys(unit, top, g) \cap DOMAIN outTree.tree
                \subseteq (IF snap.f[g].k = "alt" THEN {snap.f[g].alt} ELSE {})

\* the non-redacted repeated fields of t
PlainRepeated(u, t) ==
    {i \in DOMAIN u.Fields[t] : u.Fields[t][i].Card = "repeated" /\ ~u.Fields[t][i].Redact}

\* the singular-field rule applied to one element of a repeated field
SingularRule(u, resp, t, f, v) ==
    IF f.Kind = "message" THEN redactValue(u, resp, PkgOf(u, t), v) ELSE ScalarJ(v)

NonNil(l) == SelectSeq(l, LAMBDA item : item # Nil)

PlainMaps(u, t) ==
    {i \in DOMAIN u.Fields[t] : u.Fields[t][i].Card = "map" /\ ~u.Fields[t][i].Redact}

\* the output keys of a set of map entries under fmt.Sprintf("%v", k)
EntryKeys(es) == {SprintKey(e.key) : e \in es}

EntryAt(es, ko) == CHOOSE e \in es : SprintKey(e.key) = ko

SingularMessages(u, t) ==
    {i \in DOMAIN u.Fields[t] :
        /\ u.Fields[t][i].Card = "singular"
        /\ u.Fields[t][i].Kind = "message"
        /\ u.Fields[t][i].Oneof = NoOneof}

\* C12: a redact=true singular message field is emitted as null; a set
\* redact=false one is emitted as the recursively redacted tree of the nested
\* message when its type is true in needsRedact and as the plain form of the
\* message otherwise.
C12_SingularMessage ==
    Called =>
        \A i \in SingularMessages(unit, top) :
            LET f == unit.Fields[top][i]
                v == snap.f[f.JSONName] IN
            IF f.Redact THEN outTree.tree[f.JSONName] = JNull
            ELSE v # Nil =>
                   /\ f.JSONName \in DOMAIN outTree.tree
                   /\ outTree.tree[f.JSONName] =
                         IF Marked(needsRedact, f.Target)
                         THEN JObj(redact(unit, response, v))
                         ELSE PlainForm(unit, v)


\* the redact=true fields of t that declare no override
RedactNoOverride(u, t) ==
    {i \in DOMAIN u.Fields[t] : u.Fields[t][i].Redact /\ u.Fields[t][i].Mask = NoMask}

\* the type default of spec 4.4 / README "Type-Aware Masking"
TypeDefault(f) ==
    IF f.Card = "repeated" THEN JArr(<< >>)
    ELSE IF f.Card = "map" THEN JObj(<< >>)
    ELSE IF f.Kind = "message" THEN JNull
    ELSE IF f.Kind \in integerKinds \cup floatKinds \cup {"enum"} THEN JNum(0)
    ELSE IF f.Kind = "bool" THEN JBool(FALSE)
    ELSE IF f.Kind = "bytes" THEN JStr("")
    ELSE JStr("*")

Requested(u, t) == u.Files[FileOf(u, t)].Generate

\* C13: every requested message with a redact=true field without override gets
\* a Redact() that renders the field as its type default, whatever its value.
C13_TypeDefaults ==
    /\ RunEnded =>
          \A t \in UnitMsgs(unit) :
              Requested(unit, t) /\ RedactNoOverride(unit, t) # {} => t \in Capabilities
    /\ Called =>
          \A i \in RedactNoOverride(unit, top) :
              LET f == unit.Fields[top][i] IN
              /\ f.JSONName \in DOMAIN outTree.tree
              /\ outTree.tree[f.JSONName] = TypeDefault(f)

\* C13, composite half: in a Redact() that was generated, a redact=true message,
\* repeated or map field without override renders as null, [] and {}.
C13_CompositeDefaults ==
    Called =>
        \A i \in RedactNoOverride(unit, top) :
            LET f == unit.Fields[top][i] IN
            /\ f.JSONName \in DOMAIN outTree.tree
            /\ outTree.tree[f.JSONName] = TypeDefault(f)


\* the redact=true composite fields of t that carry a scalar mask override
CompositeWithMask(u, t) ==
    {i \in DOMAIN u.Fields[t] :
        /\ u.Fields[t][i].Redact
        /\ u.Fields[t][i].Mask # NoMask
        /\ (u.Fields[t][i].Card # "singular" \/ u.Fields[t][i].Kind = "message")}

\* C14: a redact=true message, repeated or map field that carries a scalar mask
\* override is emitted as null, [] and {}: the override is ignored.
C14_CompositeIgnoresMask ==
    Called =>
        \A i \in CompositeWithMask(unit, top) :
            LET f == unit.Fields[top][i] IN
            /\ f.JSONName \in DOMAIN outTree.tree
            /\ LET d == outTree.tree[f.JSONName] IN
               IF f.Card = "repeated" THEN d.j = "arr" /\ d = JArr(<< >>)
               ELSE IF f.Card = "map" THEN d.j = "obj" /\ d = JObj(<< >>)
               ELSE d = JNull

C14_Witness ==
    /\ Called
    /\ Cardinality({unit.Fields[top][i].Card : i \in CompositeWithMask(unit, top)}) = 3
    /\ \E i \in CompositeWithMask(unit, top) :
          /\ unit.Fields[top][i].Card = "repeated"
          /\ Len(snap.f[unit.Fields[top][i].JSONName].v) > 0
          /\ outTree.tree[unit.Fields[top][i].JSONName] = JArr(<< >>)


\* the redact=true integer fields of t with a declared integer override
IntegerWithMask(u, t) ==
    {i \in DOMAIN u.Fields[t] :
        /\ u.Fields[t][i].Redact
        /\ u.Fields[t][i].Card = "singular"
        /\ u.Fields[t][i].Kind \in integerKinds
        /\ u.Fields[t][i].Mask.kind = "int"}

MaxInt32 == 2147483647

unsignedKinds == {"uint32", "uint64", "fixed32", "fixed64"}

\* v lies in the range of the integer type kind (64-bit bounds are beyond the
\* values an override takes here)
InRange(kind, v) ==
    IF kind \in unsignedKinds THEN v >= 0
    ELSE IF kind \in int64Kinds THEN TRUE
    ELSE v >= -MaxInt32 - 1 /\ v <= MaxInt32

\* C15: every requested message with a redact=true integer field that declares
\* an integer override gets a Redact() that emits for it a number in the range
\* of the field's own integer type.
C15_MaskInFieldRange ==
    /\ RunEnded =>
          \A t \in UnitMsgs(unit) :
              Requested(unit, t) /\ IntegerWithMask(unit, t) # {} => t \in Capabilities
    /\ Called =>
          \A i \in IntegerWithMask(unit, top) :
              LET f == unit.Fields[top][i] IN
              /\ f.JSONName \in DOMAIN outTree.tree
              /\ outTree.tree[f.JSONName].j = "num"
              /\ InRange(f.Kind, outTree.tree[f.JSONName].v)


(***************************************************************************)
(* Claims about the generation run as a whole.                              *)
(***************************************************************************)
NoRedactAnywhere(u) == \A m \in UnitMsgs(u) : ~OwnsRedact(u, m)

\* C16: when the run has ended, a message has a generated capability exactly
\* when a requested file declares it and needsRedact maps it to true, there is
\* one capability per such message, and a unit without any redact=true field
\* ends normally with zero generated units.
C16_CapabilityIff ==
    RunEnded =>
        /\ \A m \in UnitMsgs(unit) :
              /\ m \in Capabilities <=> (Requested(unit, m) /\ Marked(needsRedact, m))
              /\ m \in Capabilities => Cardinality({g \in response : g.Name = m}) = 1
        /\ NoRedactAnywhere(unit) => pc = "done" /\ response = {}

\* C16, second half: a unit without any redact=true field ends normally with
\* zero generated units.
C16_NoRedactNoUnits ==
    RunEnded /\ NoRedactAnywhere(unit) => pc = "done" /\ response = {}


Fallthrough(v) ==
    IF v.ProtoMessage THEN RawMessage(ProtoText(v))
    ELSE IF v.Stringer THEN GoString(StringText(v))
    ELSE GoString(SprintfText(v))

LoggedAs(v, logged) ==
    /\ (~skipRedact /\ v.Redacter) =>
          logged.type = "json.RawMessage" /\ logged.text = RedactText(v)
    /\ (skipRedact \/ ~v.Redacter) =>
          logged.text # RedactText(v) /\ logged = Fallthrough(v)

\* C19: a logged request or reply that implements Redacter is serialised by
\* Redact() and returned as json.RawMessage unless redaction is skipped; when
\* it is skipped or the value is no Redacter the value goes through the
\* proto.Message, fmt.Stringer and generic-format paths in this order.
C19_RedacterPreferred ==
    lpc = "logged" => LoggedAs(req, logArgs) /\ LoggedAs(reply, logReply)

C19_Witness ==
    /\ lpc = "logged"
    /\ ~skipRedact
    /\ req.Redacter /\ req.ProtoMessage /\ req.Stringer
    /\ logArgs = RawMessage(RedactText(req))
    /\ ~reply.Redacter /\ ~reply.ProtoMessage /\ reply.Stringer
    /\ logReply = GoString(StringText(reply))


(***************************************************************************)
(* Claims about fatal input.                                                *)
(***************************************************************************)
\* the message-valued fields of u whose type no file of u declares
DanglingRefs(u) ==
    UNION {{<<m, i>> : i \in {j \in DOMAIN u.Fields[m] :
                                  /\ u.Fields[m][j].Kind = "message"
                                  /\ u.Fields[m][j].Target \notin UnitMsgs(u)}} :
           m \in UnitMsgs(u)}

NestedFields(u, t) ==
    {i \in DOMAIN u.Fields[t] :
        u.Fields[t][i].Kind = "message" /\ ~u.Fields[t][i].Redact}

\* C21: in the code generated for a message, the capability check on the value
\* of a redact=false message-valued field succeeds exactly when the field's
\* target type is true in needsRedact, whatever file or package declares it.
C21_CheckIffRequired ==
    Called =>
        \A i \in NestedFields(unit, top) :
            LET f == unit.Fields[top][i] IN
            Populated(snap, f) =>
                (HasRedact(response, PkgOf(unit, top), f.Target)
                    <=> Marked(needsRedact, f.Target))

(***************************************************************************)
(* Claims about the two phases of the run.                                  *)
(***************************************************************************)
\* what the requested files yield when each is generated from marks
UnitsFrom(u, marks) ==
    UNION {LET f == u.Files[k]
               units == GenerateFileWithGlobal(u, f, marks) IN
           {[File |-> f.Name, Pkg |-> f.Pkg, Name |-> units[i].Name,
             Body |-> units[i].Body] : i \in DOMAIN units} :
           k \in {j \in DOMAIN u.Files : u.Files[j].Generate}}

\* C22: once emission has begun needsRedact is the result of the analysis over
\* all files and no step changes it, and the units delivered at the end are
\* those every requested file yields from that one map.
C22_AnalysisOnceThenFrozen ==
    [][/\ pc = "emit" =>
            /\ needsRedact' = needsRedact
            /\ needsRedact = CollectGlobalRedactRequirements(
                                 unit, AnalysisFiles(unit), scanDir)
       /\ pc' = "done" => response' = UnitsFrom(unit, needsRedact)]_vars

\* a run that delivered units for two files, one of them marked only through
\* the other file
C22_Witness ==
    /\ pc = "done"
    /\ \E g, h \in response : g.File # h.File
    /\ \E m \in UnitMsgs(unit) :
          ~OwnsRedact(unit, m) /\ Marked(needsRedact, m)

\* an unmarked message with a message-valued field whose target is marked
Pending(u, marks) ==
    {m \in UnitMsgs(u) :
        /\ ~Marked(marks, m)
        /\ \E t \in EdgeTargets(u, m) : Marked(marks, t)}

\* C23: the propagation loop is always left, it is not left while an unmarked
\* message still has an edge to a marked one, and every pass after which it
\* goes on has added a mark.
C23_TerminatesAtFixpoint ==
    /\ (pc = "propagate") ~> (pc = "emit")
    /\ [](pc = "emit" => Pending(unit, needsRedact) = {})
    /\ [][(pc = "propagate" /\ pc' = "propagate") => needsRedact' # needsRedact]_vars

\* the loop has ended on a graph with a self-reference whose message got its
\* mark from a pass, not from the seed
C23_Witness ==
    /\ pc = "emit"
    /\ \E m, c \in UnitMsgs(unit) :
          /\ m # c
          /\ m \in EdgeTargets(unit, m) /\ c \in EdgeTargets(unit, m)
          /\ OwnsRedact(unit, c) /\ ~OwnsRedact(unit, m)
          /\ Marked(needsRedact, m)

(***************************************************************************)
(* Claims about messageDesc.execute and the field categories.               *)
(***************************************************************************)
\* the results of the execute() calls made for the file the loop is at
ExecutedHere ==
    IF fileIdx \in DOMAIN unit.Files /\ unit.Files[fileIdx].Generate
    THEN Range(GenerateFileWithGlobal(unit, unit.Files[fileIdx], needsRedact))
    ELSE {}

\* C24: every execute() call of the run returns the method text (it does not
\* panic), and the statements of every generated unit are those of the
\* message's fields in declaration order.
C24_ExecuteInFieldOrder ==
    /\ pc = "panicked" => \A r \in ExecutedHere : ~r.Panic
    /\ \A g \in generated :
          /\ Len(g.Body) = Len(unit.Fields[g.Name])
          /\ \A i \in DOMAIN g.Body : g.Body[i].Key = unit.Fields[g.Name][i].JSONName

\* the branches of the template that assign the field's key
AssigningBranches ==
    {"RedactRepeated", "RedactMap", "RedactMessage", "RedactInteger", "RedactFloat",
     "RedactBool", "RedactBytes", "RedactEnum", "RedactString", "MapMessage",
     "MapScalar", "RepeatedMessage", "RepeatedScalar", "OneofMessage",
     "SingularMessage", "OneofScalar", "Scalar"}

\* C25: the ten integer kinds and the two floating-point kinds are disjoint
\* categories, and for every field descriptor the template is executed over,
\* the field's key is assigned by exactly one branch.
C25_OneCategoryOneBranch ==
    /\ Cardinality(integerKinds) = 10
    /\ floatKinds = {"float", "double"}
    /\ integerKinds \cap floatKinds = {}
    /\ pc \in {"emit", "done", "panicked"} =>
          \A r \in ExecutedHere : \A i \in DOMAIN r.Body :
              r.Body[i].Branch \in AssigningBranches

(***************************************************************************)
(* Claims about the scan order of the analysis.                             *)
(***************************************************************************)
\* every order in which the messages of the synthetic units can be scanned
\* (permuting files and the messages within them)
MsgOrders == {o \in [1..NumMsgs -> Msgs] : Range(o) = Msgs}

DoCalled == runner.mpc = "do" /\ runner'.mpc # "do"

\* C27: machine.Do is only called when a leadership notification has been
\* received and the Ensure call matching the last one received has returned
\* without error; once an Ensure call has failed, Do is not called again.
C27_EnsureBeforeDo ==
    [][DoCalled =>
          /\ runner.noted
          /\ runner.ensured = (IF runner.isLeader THEN "master" ELSE "slave")]_vars

\* Do has been called after a notification that arrived in the loop
C27_Witness ==
    /\ runner # NoObject
    /\ runner.mpc = "wait"
    /\ runner.late
    /\ runner.ensured \in {"master", "slave"}

\* C28: whenever cleanup is waiting and the serveMachine goroutine has
\* returned, the wait group is released, so the wait ends.
C28_ExitReleasesWaitGroup ==
    (runner # NoObject /\ runner.cleanup = "waiting" /\ runner.mpc = "returned")
        => runner.wg = 0

(***************************************************************************)
(* Claims about the daily rotation.                                         *)
(***************************************************************************)
\* the Rotate calls made or about to be made by writers that observed day d
Rotators(d) ==
    writer.rot[d]
    + Cardinality({w \in Writers : writer.wpc[w] = "rotate" /\ writer.t[w] = d})

\* C29 as stated: for every new day some writer has observed, exactly one
\* writer calls Rotate.
C29_ExactlyOnePerDay ==
    writer # NoObject => \A d \in writer.observed : Rotators(d) = 1

\* C29: the stored day never decreases; for no day do two writers call Rotate,
\* and a writer calls Rotate for a day only once that day or a later one is
\* stored; while a single new day has been observed, exactly one of the
\* writers that observed it calls Rotate.
C29_RotateOncePerChange ==
    /\ [][writer # NoObject => writer'.n >= writer.n]_vars
    /\ [](writer # NoObject =>
            /\ \A d \in Days : Rotators(d) <= 1
            /\ \A d \in Days : Rotators(d) = 1 => writer.n >= d
            /\ \A d \in Days : writer.observed = {d} => Rotators(d) = 1)

\* two writers have observed the same new day; one has rotated, the other has
\* lost the compare-and-swap and gone on to write
C29_Witness ==
    /\ writer # NoObject
    /\ \E d \in writer.observed :
          /\ writer.rot[d] = 1
          /\ writer.t["w1"] = d /\ writer.t["w2"] = d
          /\ writer.now["w1"] < d /\ writer.now["w2"] < d
          /\ \A w \in Writers : writer.wpc[w] \in {"write", "idle"}

(***************************************************************************)
(* Claims about the encryptor.                                              *)
(***************************************************************************)
\* C30: an Encrypt call of a non-empty plaintext that has returned either
\* failed or used a nonce that is random or derived from the original key
\* bytes; a call that began after Clear had returned has failed.
C30_NonceFromOriginalKey ==
    (enc # NoObject /\ enc.epc = "returned" /\ enc.plaintext # "") =>
        /\ enc.result = "ciphertext" =>
              \/ enc.nonce.kind = "random"
              \/ (enc.nonce.kind = "hmac" /\ enc.nonce.hmacKey = OriginalKey)
        /\ enc.late => enc.result = "error"
====
